---- MODULE Spec2Model ----
(***************************************************************************)
(* Model of the NIL tax-reserve service (backend/app).                     *)
(*                                                                         *)
(* The calculation works on Python floats (IEEE 754 binary64) and rounds   *)
(* them with round(value, 2).  Whether a product such as 0.05 * 0.1 lands  *)
(* above or below the half cent is decided by the binary representation,   *)
(* so the model carries binary64 arithmetic exactly: a float is a sign, a  *)
(* 53-bit significand and a binary exponent, and the significand is held   *)
(* as a sequence of limbs because it does not fit a machine integer.       *)
(***************************************************************************)
EXTENDS Integers, Sequences, FiniteSets

(***************************************************************************)
(* Natural numbers of arbitrary size: little-endian sequences of limbs in  *)
(* 0..Base-1 without a leading (last) zero limb; <<>> is zero.             *)
(***************************************************************************)
LimbBits == 7 + 8
Base == 2^LimbBits

RECURSIVE Pow2(_)
Pow2(n) == IF n = 0 THEN 1 ELSE 2 * Pow2(n - 1)

RECURSIVE BNorm(_)
BNorm(a) ==
    IF a = <<>> THEN <<>>
    ELSE IF a[Len(a)] = 0 THEN BNorm(SubSeq(a, 1, Len(a) - 1))
    ELSE a

RECURSIVE BFromInt(_)
BFromInt(n) == IF n = 0 THEN <<>> ELSE <<n % Base>> \o BFromInt(n \div Base)

RECURSIVE BToInt(_)
BToInt(a) == IF a = <<>> THEN 0 ELSE Head(a) + Base * BToInt(Tail(a))

RECURSIVE BAddC(_, _, _)
BAddC(a, b, c) ==
    IF a = <<>> /\ b = <<>> THEN (IF c = 0 THEN <<>> ELSE <<c>>)
    ELSE LET x == IF a = <<>> THEN 0 ELSE Head(a)
             y == IF b = <<>> THEN 0 ELSE Head(b)
             t == x + y + c
         IN  <<t % Base>> \o BAddC(IF a = <<>> THEN <<>> ELSE Tail(a),
                                   IF b = <<>> THEN <<>> ELSE Tail(b),
                                   t \div Base)

BAdd(a, b) == BAddC(a, b, 0)

\* a - b for a >= b, limb by limb with a borrow.
RECURSIVE BSubB(_, _, _)
BSubB(a, b, c) ==
    IF a = <<>> THEN <<>>
    ELSE LET y == IF b = <<>> THEN 0 ELSE Head(b)
             t == Head(a) - y - c
         IN  <<(t + Base) % Base>> \o BSubB(Tail(a),
                                   IF b = <<>> THEN <<>> ELSE Tail(b),
                                   IF t < 0 THEN 1 ELSE 0)

BSub(a, b) == BNorm(BSubB(a, b, 0))

\* -1, 0 or 1 as a < b, a = b, a > b (both normalised).
RECURSIVE BCmp(_, _)
BCmp(a, b) ==
    IF Len(a) # Len(b) THEN (IF Len(a) < Len(b) THEN -1 ELSE 1)
    ELSE IF a = <<>> THEN 0
    ELSE IF a[Len(a)] # b[Len(b)] THEN (IF a[Len(a)] < b[Len(b)] THEN -1 ELSE 1)
    ELSE BCmp(SubSeq(a, 1, Len(a) - 1), SubSeq(b, 1, Len(b) - 1))

\* a * k + c for 0 <= k, c < Base.
RECURSIVE BMulSmallC(_, _, _)
BMulSmallC(a, k, c) ==
    IF a = <<>> THEN (IF c = 0 THEN <<>> ELSE <<c>>)
    ELSE LET t == Head(a) * k + c
         IN  <<t % Base>> \o BMulSmallC(Tail(a), k, t \div Base)

BMulSmall(a, k) == BNorm(BMulSmallC(a, k, 0))

RECURSIVE BMul(_, _)
BMul(a, b) ==
    IF a = <<>> \/ b = <<>> THEN <<>>
    ELSE BAdd(BMulSmall(a, Head(b)),
              LET hi == BMul(a, Tail(b)) IN IF hi = <<>> THEN <<>> ELSE <<0>> \o hi)

\* Quotient and remainder of a by d, 0 < d < Base (long division from the top limb).
RECURSIVE BDivSmallR(_, _)
BDivSmallR(a, d) ==
    IF a = <<>> THEN [q |-> <<>>, r |-> 0]
    ELSE LET hi == BDivSmallR(Tail(a), d)
             t  == hi.r * Base + Head(a)
         IN  [q |-> <<t \div d>> \o hi.q, r |-> t % d]

BDivSmall(a, d) == LET x == BDivSmallR(a, d) IN [q |-> BNorm(x.q), r |-> x.r]

RECURSIVE BitLenInt(_)
BitLenInt(n) == IF n = 0 THEN 0 ELSE 1 + BitLenInt(n \div 2)

BBitLen(a) == IF a = <<>> THEN 0 ELSE (Len(a) - 1) * LimbBits + BitLenInt(a[Len(a)])

BIsOdd(a) == a # <<>> /\ Head(a) % 2 = 1

\* a * 2^n.
BShl(a, n) ==
    IF a = <<>> THEN <<>>
    ELSE BMulSmall([i \in 1..(n \div LimbBits) |-> 0] \o a, Pow2(n % LimbBits))

\* floor(a / 2^n).
BShr(a, n) ==
    IF n \div LimbBits >= Len(a) THEN <<>>
    ELSE BDivSmall(SubSeq(a, (n \div LimbBits) + 1, Len(a)), Pow2(n % LimbBits)).q

\* a / 2^n rounded to the nearest integer, ties to even.
BShrRNE(a, n) ==
    IF n = 0 THEN a
    ELSE LET q1     == BShr(a, n - 1)
             q      == BShr(q1, 1)
             half   == BIsOdd(q1)
             sticky == BShl(q1, n - 1) # a
         IN  IF half /\ (sticky \/ BIsOdd(q)) THEN BAdd(q, <<1>>) ELSE q


(***************************************************************************)
(* Python floats.  A float is [s, m, e] with value s * m * 2^e, s in       *)
(* {1, -1}; m is zero or has exactly Precision bits.  All values of the    *)
(* service lie far inside the normal range, so subnormals, infinities and  *)
(* NaN are not represented (the unbounded last bracket is handled where    *)
(* the bracket table is scanned).                                          *)
(***************************************************************************)
Precision == 53

FZero == [s |-> 1, m |-> <<>>, e |-> 0]

\* The float nearest to the exact value s * N * 2^e (round to nearest, ties to even).
FRound(s, N, e) ==
    IF N = <<>> THEN FZero
    ELSE LET L == BBitLen(N)
         IN  IF L <= Precision
             THEN [s |-> s, m |-> BShl(N, Precision - L), e |-> e - (Precision - L)]
             ELSE LET r == BShrRNE(N, L - Precision)
                  IN  IF BBitLen(r) > Precision
                      THEN [s |-> s, m |-> BShr(r, 1), e |-> e + (L - Precision) + 1]
                      ELSE [s |-> s, m |-> r, e |-> e + (L - Precision)]

Abs(n) == IF n < 0 THEN -n ELSE n
Sign(n) == IF n < 0 THEN -1 ELSE 1

\* The float a decimal literal n/d denotes (float("0.153") is FFromDecimal(153, 1000)):
\* the quotient is taken to GuardBits binary places and the remainder kept as a
\* sticky bit, then rounded once.
GuardBits == Precision + 17
FFromDecimal(n, d) ==
    LET x == BDivSmall(BShl(BFromInt(Abs(n)), GuardBits), d)
    IN  FRound(Sign(n),
               BAdd(BMulSmall(x.q, 2), IF x.r = 0 THEN <<>> ELSE <<1>>),
               -(GuardBits + 1))

FFromInt(n) == FFromDecimal(n, 1)

FNeg(x) == [x EXCEPT !.s = -x.s]

FMul(x, y) == FRound(x.s * y.s, BMul(x.m, y.m), x.e + y.e)

Min(a, b) == IF a <= b THEN a ELSE b

\* -1, 0, 1 as |x| < |y|, |x| = |y|, |x| > |y|.
FCmpAbs(x, y) ==
    LET e0 == Min(x.e, y.e)
    IN  BCmp(BShl(x.m, x.e - e0), BShl(y.m, y.e - e0))

FAdd(x, y) ==
    IF x.m = <<>> THEN y
    ELSE IF y.m = <<>> THEN x
    ELSE LET e0 == Min(x.e, y.e)
             X  == BShl(x.m, x.e - e0)
             Y  == BShl(y.m, y.e - e0)
         IN  IF x.s = y.s THEN FRound(x.s, BAdd(X, Y), e0)
             ELSE IF BCmp(X, Y) >= 0 THEN FRound(x.s, BSub(X, Y), e0)
             ELSE FRound(y.s, BSub(Y, X), e0)

FSub(x, y) == FAdd(x, FNeg(y))

FIsZero(x) == x.m = <<>>

\* x < y.
FLt(x, y) ==
    IF FIsZero(x) /\ FIsZero(y) THEN FALSE
    ELSE IF FIsZero(x) THEN y.s = 1
    ELSE IF FIsZero(y) THEN x.s = -1
    ELSE IF x.s # y.s THEN x.s = -1
    ELSE IF x.s = 1 THEN FCmpAbs(x, y) < 0
    ELSE FCmpAbs(x, y) > 0

FLe(x, y) == ~FLt(y, x)

\* round(x, 2) as a whole number of cents: x * 100 taken exactly and rounded to the
\* nearest integer, an exact tie going to the even one.
RoundCents(x) ==
    IF FIsZero(x) THEN 0
    ELSE LET N == BMulSmall(x.m, 100)
         IN  x.s * BToInt(IF x.e >= 0 THEN BShl(N, x.e) ELSE BShrRNE(N, -x.e))


(***************************************************************************)
(* Values.  A number of the request or of a table is written as the        *)
(* decimal literal it is given as, in thousandths: 153 is 0.153, 1000000   *)
(* is 1000.00.  FloatOf is the float Python reads the literal as.  A       *)
(* string is the sequence of its code points ("TX" is <<84, 88>>).         *)
(***************************************************************************)
\* Optional[float]: None is the empty tuple, a value v is <<v>>.
None == <<>>
Some(v) == <<v>>
Value(o) == o[1]

FloatOf(n) == FFromDecimal(n, 1000)

(***************************************************************************)
(* app/core/tax_calculator.py                                              *)
(***************************************************************************)
SELF_EMPLOYMENT_TAX_RATE == 153

\* Mutant: the top bracket's rate below the third bracket's.
FEDERAL_BRACKETS_LowTop ==
    << [threshold |-> 11000000, inf |-> FALSE, rate |-> 100],
       [threshold |-> 44000000, inf |-> FALSE, rate |-> 120],
       [threshold |-> 95000000, inf |-> FALSE, rate |-> 220],
       [threshold |-> 0,        inf |-> TRUE,  rate |-> 200] >>

\* The bracket table: thresholds and rates in thousandths, the last threshold
\* float("inf").
FEDERAL_BRACKETS ==
    << [threshold |-> 11000000, inf |-> FALSE, rate |-> 100],
       [threshold |-> 44000000, inf |-> FALSE, rate |-> 120],
       [threshold |-> 95000000, inf |-> FALSE, rate |-> 220],
       [threshold |-> 0,        inf |-> TRUE,  rate |-> 240] >>

\* _round_currency: the rounded float, named by its whole number of cents c (the
\* float is FFromDecimal(c, 100)).
_round_currency(x) == RoundCents(x)

CentsFloat(c) == FFromDecimal(c, 100)

\* Mutant: the comparison made strict, so a threshold no longer belongs to its bracket.
LeThreshold_Strict(x, bracket) ==
    IF bracket.inf THEN TRUE ELSE FLt(x, FloatOf(bracket.threshold))

\* annual_income_estimate <= threshold, the last threshold being float("inf").
LeThreshold(x, bracket) ==
    IF bracket.inf THEN TRUE ELSE FLe(x, FloatOf(bracket.threshold))

\* The for loop of infer_federal_rate from bracket i on.
RECURSIVE InferFrom(_, _)
InferFrom(i, annual_income_estimate) ==
    IF i > Len(FEDERAL_BRACKETS) THEN FEDERAL_BRACKETS[Len(FEDERAL_BRACKETS)].rate
    ELSE IF LeThreshold(FloatOf(annual_income_estimate), FEDERAL_BRACKETS[i])
         THEN FEDERAL_BRACKETS[i].rate
         ELSE InferFrom(i + 1, annual_income_estimate)

\* Mutant: the scan skipped, the last bracket's rate returned for every estimate.
infer_federal_rate_LastBracket(annual_income_estimate) ==
    FEDERAL_BRACKETS[Len(FEDERAL_BRACKETS)].rate

infer_federal_rate(annual_income_estimate) == InferFrom(1, annual_income_estimate)

\* Mutant: the key ignored, the first item's value returned.
DictGet_First(table, key, default) ==
    IF table = <<>> THEN default ELSE Head(table).value

\* STATE_TAX_RATES.get(code, 0.0) on a table given as a sequence of entries.
RECURSIVE DictGet(_, _, _)
DictGet(table, key, default) ==
    IF table = <<>> THEN default
    ELSE IF Head(table).code = key THEN Head(table).value
    ELSE DictGet(Tail(table), key, default)

\* Mutant: "if payload.federal_rate:" for "is not None", so an explicit 0 counts as
\* absent.
ResolveFederalRate_Truthy(p) ==
    IF p.federal_rate # None /\ Value(p.federal_rate) # 0 THEN Value(p.federal_rate)
    ELSE IF p.annual_income_estimate # None
         THEN infer_federal_rate(Value(p.annual_income_estimate))
         ELSE FEDERAL_BRACKETS[Len(FEDERAL_BRACKETS)].rate

\* Mutant: the default taken from the first bracket instead of the last.
ResolveFederalRate_FirstBracket(p) ==
    IF p.federal_rate # None THEN Value(p.federal_rate)
    ELSE IF p.annual_income_estimate # None
         THEN infer_federal_rate(Value(p.annual_income_estimate))
         ELSE FEDERAL_BRACKETS[1].rate

\* The branches of calculate_tax_reserve that choose federal_rate.
ResolveFederalRate(p) ==
    IF p.federal_rate # None THEN Value(p.federal_rate)
    ELSE IF p.annual_income_estimate # None
         THEN infer_federal_rate(Value(p.annual_income_estimate))
         ELSE FEDERAL_BRACKETS[Len(FEDERAL_BRACKETS)].rate

\* amount * rate, rounded: the three tax lines of calculate_tax_reserve.  A rounded
\* amount is named by its whole number of cents.
TaxOn(amount, rate) == _round_currency(FMul(amount, FloatOf(rate)))

RecommendedReserve(self_employment_tax, federal_tax, state_tax) ==
    _round_currency(FAdd(FAdd(CentsFloat(self_employment_tax), CentsFloat(federal_tax)),
                         CentsFloat(state_tax)))

\* Mutant: usable cash never below zero.
UsableCash_Clamped(amount, recommended_reserve) ==
    IF FLt(amount, CentsFloat(recommended_reserve)) THEN 0
    ELSE _round_currency(FSub(amount, CentsFloat(recommended_reserve)))

UsableCash(amount, recommended_reserve) ==
    _round_currency(FSub(amount, CentsFloat(recommended_reserve)))

TaxCalculationResponse(amount, self_employment_tax, federal_tax, state_tax, recommended_reserve) ==
    [raised |-> FALSE,
     gross_income        |-> _round_currency(amount),
     self_employment_tax |-> self_employment_tax,
     federal_tax         |-> federal_tax,
     state_tax           |-> state_tax,
     recommended_reserve |-> recommended_reserve,
     usable_cash         |-> UsableCash(amount, recommended_reserve),
     disclaimer          |-> "DISCLAIMER"]

ReserveFromTaxes(amount, self_employment_tax, federal_tax, state_tax) ==
    TaxCalculationResponse(amount, self_employment_tax, federal_tax, state_tax,
        RecommendedReserve(self_employment_tax, federal_tax, state_tax))

ReserveFromRates(amount, federal_rate, state_rate) ==
    ReserveFromTaxes(amount,
                     TaxOn(amount, SELF_EMPLOYMENT_TAX_RATE),
                     TaxOn(amount, federal_rate),
                     TaxOn(amount, state_rate))

\* Mutant: the check of a negative amount left out.
calculate_tax_reserve_Unchecked(p, rates) ==
    ReserveFromRates(FloatOf(p.amount), ResolveFederalRate(p), DictGet(rates, p.state, 0))

\* calculate_tax_reserve: either raises ValueError or returns the response.  The
\* statements of the function follow one another as the operators above, each
\* handing its results to the next.
calculate_tax_reserve(p, rates) ==
    IF FLt(FloatOf(p.amount), FZero)
    THEN [raised |-> TRUE, detail |-> "Income amount cannot be negative."]
    ELSE ReserveFromRates(FloatOf(p.amount),
                          ResolveFederalRate(p),
                          DictGet(rates, p.state, 0))

(***************************************************************************)
(* app/models/tax_models.py                                                *)
(***************************************************************************)
\* str.upper on the letters a-z, any other code point unchanged.
UpperChar(c) == IF c >= 97 /\ c <= 122 THEN c - 32 ELSE c

Upper(value) == [i \in 1..Len(value) |-> UpperChar(value[i])]

\* The ASCII white space str.strip removes.
Whitespace == {9, 10, 11, 12, 13, 32}

RECURSIVE LStrip(_)
LStrip(value) ==
    IF value # <<>> /\ Head(value) \in Whitespace THEN LStrip(Tail(value)) ELSE value

RECURSIVE RStrip(_)
RStrip(value) ==
    IF value # <<>> /\ value[Len(value)] \in Whitespace
    THEN RStrip(SubSeq(value, 1, Len(value) - 1))
    ELSE value

Strip(value) == RStrip(LStrip(value))

normalize_state(value) == Strip(Upper(value))

\* The Field constraints of TaxCalculationRequest: amount ge=0, federal_rate ge=0
\* le=1, annual_income_estimate ge=0.
FieldsValid(body) ==
    /\ FLe(FZero, FloatOf(body.amount))
    /\ body.federal_rate # None =>
          /\ FLe(FZero, FloatOf(Value(body.federal_rate)))
          /\ FLe(FloatOf(Value(body.federal_rate)), FFromInt(1))
    /\ body.annual_income_estimate # None =>
          FLe(FZero, FloatOf(Value(body.annual_income_estimate)))

\* TaxCalculationRequest(**body): the payload the route receives.
TaxCalculationRequest(body) == [body EXCEPT !.state = normalize_state(body.state)]

(***************************************************************************)
(* app/api/tax.py                                                          *)
(***************************************************************************)
HTTP_200_OK == 200
HTTP_400_BAD_REQUEST == 400

\* calculate_tax: the response of the route for a payload.
RouteResponse(r) ==
    IF r.raised
    THEN [kind |-> "HTTPException", status_code |-> HTTP_400_BAD_REQUEST,
          detail |-> r.detail]
    ELSE [kind |-> "TaxCalculationResponse", status_code |-> HTTP_200_OK, body |-> r]

calculate_tax(p, rates) == RouteResponse(calculate_tax_reserve(p, rates))

\* s < t for strings, code point by code point as Python compares str.
RECURSIVE StrLt(_, _)
StrLt(s, t) ==
    IF t = <<>> THEN FALSE
    ELSE IF s = <<>> THEN TRUE
    ELSE IF Head(s) # Head(t) THEN Head(s) < Head(t)
    ELSE StrLt(Tail(s), Tail(t))

\* Mutant: no sorting, the entry appended.
InsertByName_Append(sorted, x) == sorted \o <<x>>

\* One step of the stable sort by name: x goes after every entry whose name is not
\* greater than its own.
RECURSIVE InsertByName(_, _)
InsertByName(sorted, x) ==
    IF sorted = <<>> THEN <<x>>
    ELSE IF StrLt(x.name, Head(sorted).name) THEN <<x>> \o sorted
    ELSE <<Head(sorted)>> \o InsertByName(Tail(sorted), x)

RECURSIVE SortByName(_)
SortByName(entries) ==
    IF entries = <<>> THEN <<>>
    ELSE InsertByName(SortByName(SubSeq(entries, 1, Len(entries) - 1)),
                      entries[Len(entries)])

\* list_state_tax_rates: one entry per item of STATE_TAX_RATES in dict order, then
\* sorted by name.
StateEntries(rates, names) ==
    [i \in 1..Len(rates) |->
        [code |-> rates[i].code,
         name |-> DictGet(names, rates[i].code, rates[i].code),
         rate |-> rates[i].value]]

list_state_tax_rates(rates, names) == SortByName(StateEntries(rates, names))

(***************************************************************************)
(* app/utils/constants.py is not part of the sources at hand: the tables   *)
(* are configuration read at import, taken here from a small family of     *)
(* possible contents.  A dict is the sequence of its items in insertion    *)
(* order, each [code, value].                                              *)
(***************************************************************************)
TX == <<84, 88>>
CA == <<67, 65>>
ZZ == <<90, 90>>
Texas == <<84, 101, 120, 97, 115>>
California == <<67, 97, 108, 105, 102, 111, 114, 110, 105, 97>>

Codes == {TX, CA, ZZ}
TableRates == {0, 50}
DisplayNames == {Texas, California}

MaxTableLen == 2

\* The dicts with at most n items: keys from Codes, no key twice.
DictsOver(values, n) ==
    {t \in UNION {[1..k -> [code : Codes, value : values]] : k \in 0..n} :
        \A i, j \in DOMAIN t : t[i].code = t[j].code => i = j}

RateTables == DictsOver(TableRates, MaxTableLen)
NameTables == DictsOver(DisplayNames, MaxTableLen)

\* The tables the calculation is exercised with.
ConfiguredRates ==
    { <<>>,
      << [code |-> TX, value |-> 0], [code |-> CA, value |-> 50] >>,
      << [code |-> TX, value |-> 50] >> }

(***************************************************************************)
(* Requests.                                                               *)
(***************************************************************************)
MaxAmount == 60
MaxStateLen == 3

\* Amounts in thousandths: every amount up to MaxAmount thousandths (sub-cent
\* amounts included), binary fractions that sit exactly on a half cent, and the
\* amounts of the documented examples.
Amounts == (0..MaxAmount) \cup {125, 625, 1000000, 100000000}
NegativeAmounts == {-1, -500, -1000000}
FederalRates == {0, 200, 1000}
Estimates == {0, 50000000, 1000000000}
Optional(S) == {None} \cup {Some(v) : v \in S}

\* Payloads as the route may be handed them: state already normalised, rates and
\* estimates within the schema's ranges; the amount may be negative, which is the
\* case calculate_tax_reserve checks for itself.
Payloads ==
    [amount : Amounts \cup NegativeAmounts,
     state : {<<>>, TX, CA, ZZ},
     federal_rate : Optional(FederalRates),
     annual_income_estimate : Optional(Estimates)]

\* Request bodies as they arrive over HTTP, before validation.
StateAlphabet == {32, 116, 88}
RawStates == UNION {[1..k -> StateAlphabet] : k \in 0..MaxStateLen}
Bodies ==
    [amount : {-1, 0, 55, 1000000},
     state : RawStates,
     federal_rate : Optional({-1, 200, 1001}),
     annual_income_estimate : Optional({-10, 50000000})]

\* Estimates around each bracket threshold, in steps of a thousandth.
MaxDelta == 20
InferEstimates ==
    {0, 50000000, 1000000000} \cup
    {FEDERAL_BRACKETS[i].threshold + d :
        i \in 1..(Len(FEDERAL_BRACKETS) - 1), d \in (-MaxDelta)..MaxDelta}

(***************************************************************************)
(* State.                                                                  *)
(***************************************************************************)
VARIABLES
    STATE_TAX_RATES,      \* constants.STATE_TAX_RATES
    STATE_DISPLAY_NAMES,  \* constants.STATE_DISPLAY_NAMES
    payload,              \* the payload of the request being served, if one was built
    response,             \* the response being returned for it
    inferred              \* the call of infer_federal_rate being returned: [estimate, rate]

vars == <<STATE_TAX_RATES, STATE_DISPLAY_NAMES, payload, response, inferred>>

config == <<STATE_TAX_RATES, STATE_DISPLAY_NAMES>>

Idle ==
    /\ payload = None
    /\ response = None
    /\ inferred = None

\* POST /api/tax/calculate with a request body: the schema is applied first, and
\* only a valid body becomes a payload and reaches the route.
PostCalculate(body) ==
    /\ Idle
    /\ IF FieldsValid(body)
       THEN /\ payload' = Some(TaxCalculationRequest(body))
            /\ response' = Some(calculate_tax(TaxCalculationRequest(body), STATE_TAX_RATES))
       ELSE /\ payload' = None
            /\ response' = Some([kind |-> "RequestValidationError"])
    /\ UNCHANGED <<config, inferred>>

\* calculate_tax called with a payload object.
CalculateTax(p) ==
    /\ Idle
    /\ payload' = Some(p)
    /\ response' = Some(calculate_tax(p, STATE_TAX_RATES))
    /\ UNCHANGED <<config, inferred>>

\* GET /api/tax/state-rates.
ListStateTaxRates ==
    /\ Idle
    /\ payload' = None
    /\ response' = Some([kind |-> "StateTaxRatesResponse", status_code |-> HTTP_200_OK,
                         states |-> list_state_tax_rates(STATE_TAX_RATES,
                                                         STATE_DISPLAY_NAMES)])
    /\ UNCHANGED <<config, inferred>>

\* infer_federal_rate called on its own.
InferFederalRate(e) ==
    /\ Idle
    /\ inferred' = Some([estimate |-> e, rate |-> infer_federal_rate(e)])
    /\ UNCHANGED <<config, payload, response>>

\* The response (or the return value) is handed back; nothing is kept between
\* requests.
Return ==
    /\ ~Idle
    /\ payload' = None
    /\ response' = None
    /\ inferred' = None
    /\ UNCHANGED config

\* The service.
Init ==
    /\ STATE_TAX_RATES \in ConfiguredRates
    /\ STATE_DISPLAY_NAMES = << [code |-> TX, value |-> Texas] >>
    /\ Idle

Next ==
    \/ \E body \in Bodies : PostCalculate(body)
    \/ \E p \in Payloads : CalculateTax(p)
    \/ ListStateTaxRates
    \/ \E e \in InferEstimates : InferFederalRate(e)
    \/ Return

Spec == Init /\ [][Next]_vars

\* The state listing over every configuration of the two tables.
ListInit ==
    /\ STATE_TAX_RATES \in RateTables
    /\ STATE_DISPLAY_NAMES \in NameTables
    /\ Idle

ListNext == ListStateTaxRates \/ Return

ListSpec == ListInit /\ [][ListNext]_vars

(***************************************************************************)
(* Properties.  Money in a response is in whole cents, a request's amount  *)
(* in thousandths, so an amount a and a sum of c cents compare as a and    *)
(* 10 * c.                                                                 *)
(***************************************************************************)
Req == Value(payload)
Res == Value(response)

\* The request was calculated and a TaxCalculationResponse is being returned.
Calculated ==
    /\ payload # None
    /\ response # None
    /\ Res.kind = "TaxCalculationResponse"

\* The request reached the route.
Routed == payload # None /\ response # None

HasKey(table, key) == \E i \in DOMAIN table : table[i].code = key

\* C1: for every accepted request, recommended_reserve is the sum of the three
\* rounded taxes and usable_cash is gross_income minus recommended_reserve.
C1_ReserveAndUsableCash ==
    Calculated =>
        /\ Res.body.recommended_reserve =
              Res.body.self_employment_tax + Res.body.federal_tax + Res.body.state_tax
        /\ Res.body.usable_cash = Res.body.gross_income - Res.body.recommended_reserve

\* The first half of C1 alone: the reserve is the exact sum of the three taxes.
ReserveIsSumOfTaxes ==
    Calculated =>
        Res.body.recommended_reserve =
            Res.body.self_employment_tax + Res.body.federal_tax + Res.body.state_tax

\* C2: a negative amount makes the calculation fail with the validation error and
\* no result; the route answers 400.
C2_NegativeAmountRejected ==
    (Routed /\ Req.amount < 0) =>
        /\ Res.kind = "HTTPException"
        /\ Res.status_code = 400
        /\ Res.detail = "Income amount cannot be negative."
        /\ "body" \notin DOMAIN Res

C2_Witness ==
    /\ Routed
    /\ Req.amount = -500
    /\ Req.federal_rate = Some(200)
    /\ Res.kind = "HTTPException"

\* The rate the bracket table gives an estimate, thresholds inclusive, read off the
\* decimal values.
BracketRate(e) ==
    IF e <= 11000000 THEN 100
    ELSE IF e <= 44000000 THEN 120
    ELSE IF e <= 95000000 THEN 220
    ELSE 240

\* Bracket i is the first whose threshold is not below the estimate.
FirstMatch(i, e) ==
    /\ FEDERAL_BRACKETS[i].inf \/ e <= FEDERAL_BRACKETS[i].threshold
    /\ \A j \in 1..(i - 1) : e > FEDERAL_BRACKETS[j].threshold

\* C3: infer_federal_rate returns the rate of the first bracket whose threshold is
\* >= the estimate, thresholds inclusive, and exactly one bracket is selected.
C3_BracketInference ==
    inferred # None =>
        /\ Value(inferred).rate = BracketRate(Value(inferred).estimate)
        /\ Cardinality({i \in DOMAIN FEDERAL_BRACKETS :
                           FirstMatch(i, Value(inferred).estimate)}) = 1
        /\ \A i \in DOMAIN FEDERAL_BRACKETS :
              FirstMatch(i, Value(inferred).estimate) =>
                  Value(inferred).rate = FEDERAL_BRACKETS[i].rate
        /\ (Value(inferred).estimate = 11000000 => Value(inferred).rate = 100)
        /\ (Value(inferred).estimate = 11000010 => Value(inferred).rate = 120)
        /\ (Value(inferred).estimate = 1000000000 => Value(inferred).rate = 240)

C3_Witness ==
    /\ inferred # None
    /\ Value(inferred).estimate = 11000010
    /\ Value(inferred).rate = 120

\* C4: an explicit federal_rate, 0 included, is used verbatim whatever the estimate.
C4_ExplicitRateOverrides ==
    (Calculated /\ Req.federal_rate # None) =>
        Res.body.federal_tax = TaxOn(FloatOf(Req.amount), Value(Req.federal_rate))

C4_Witness ==
    /\ Calculated
    /\ Req.amount = 1000000
    /\ Req.federal_rate = Some(0)
    /\ Req.annual_income_estimate = Some(50000000)
    /\ Res.body.federal_tax = 0

\* C5: with neither federal_rate nor annual_income_estimate the rate is 0.24.
C5_DefaultRate ==
    (Calculated /\ Req.federal_rate = None /\ Req.annual_income_estimate = None) =>
        Res.body.federal_tax = TaxOn(FloatOf(Req.amount), 240)

C5_Witness ==
    /\ Calculated
    /\ Req.amount = 1000000
    /\ Req.federal_rate = None
    /\ Req.annual_income_estimate = None
    /\ Res.body.federal_tax = 24000

\* C6: a state code that is no key of the table gives state_tax 0 and no error; a
\* code of the table is taxed at the table's rate.
C6_StateRate ==
    (Routed /\ Req.amount >= 0) =>
        /\ Res.kind = "TaxCalculationResponse"
        /\ ~HasKey(STATE_TAX_RATES, Req.state) => Res.body.state_tax = 0
        /\ \A i \in DOMAIN STATE_TAX_RATES :
              STATE_TAX_RATES[i].code = Req.state =>
                  Res.body.state_tax =
                      TaxOn(FloatOf(Req.amount), STATE_TAX_RATES[i].value)

C6_Witness ==
    /\ Calculated
    /\ Req.amount = 1000000
    /\ Req.state = ZZ
    /\ HasKey(STATE_TAX_RATES, TX)
    /\ DictGet(STATE_TAX_RATES, TX, 0) = 50
    /\ Res.body.state_tax = 0

\* C7: the listing has exactly one entry per code of the rate table, with the
\* table's rate, ordered by display name; an unmapped code is named by its code.
Listed == response # None /\ Res.kind = "StateTaxRatesResponse"

C7_StateListing ==
    Listed =>
        /\ Len(Res.states) = Len(STATE_TAX_RATES)
        /\ \A i \in DOMAIN STATE_TAX_RATES :
              Cardinality({j \in DOMAIN Res.states :
                              Res.states[j].code = STATE_TAX_RATES[i].code}) = 1
        /\ \A j \in DOMAIN Res.states :
              /\ \E i \in DOMAIN STATE_TAX_RATES :
                    /\ STATE_TAX_RATES[i].code = Res.states[j].code
                    /\ STATE_TAX_RATES[i].value = Res.states[j].rate
              /\ \A k \in DOMAIN STATE_DISPLAY_NAMES :
                    STATE_DISPLAY_NAMES[k].code = Res.states[j].code =>
                        Res.states[j].name = STATE_DISPLAY_NAMES[k].value
              /\ ~HasKey(STATE_DISPLAY_NAMES, Res.states[j].code) =>
                    Res.states[j].name = Res.states[j].code
        /\ \A j, k \in DOMAIN Res.states :
              j < k => ~StrLt(Res.states[k].name, Res.states[j].name)

C7_Witness ==
    /\ Listed
    /\ STATE_TAX_RATES = << [code |-> ZZ, value |-> 50], [code |-> TX, value |-> 0] >>
    /\ STATE_DISPLAY_NAMES = << [code |-> TX, value |-> Texas] >>
    /\ Res.states = << [code |-> TX, name |-> Texas, rate |-> 0],
                       [code |-> ZZ, name |-> ZZ, rate |-> 50] >>

\* The request of the documented example: amount 1000, a state taxed at 0.0, no
\* explicit rate, estimate 50000.
ExampleRequest ==
    /\ Calculated
    /\ Req.amount = 1000000
    /\ DictGet(STATE_TAX_RATES, Req.state, 0) = 0
    /\ Req.federal_rate = None
    /\ Req.annual_income_estimate = Some(50000000)

\* C8 as stated: the example uses federal_rate 0.24 and returns 153.00, 240.00, 0.00,
\* 393.00 and 607.00.
C8_ExampleAsStated ==
    ExampleRequest =>
        /\ ResolveFederalRate(Req) = 240
        /\ Res.body.self_employment_tax = 15300
        /\ Res.body.federal_tax = 24000
        /\ Res.body.state_tax = 0
        /\ Res.body.recommended_reserve = 39300
        /\ Res.body.usable_cash = 60700

\* C8 amended: an estimate of 50000 lies in the 22% bracket, so the example returns
\* 153.00, 220.00, 0.00, 373.00 and 627.00.
C8_Example ==
    ExampleRequest =>
        /\ ResolveFederalRate(Req) = 220
        /\ Res.body.self_employment_tax = 15300
        /\ Res.body.federal_tax = 22000
        /\ Res.body.state_tax = 0
        /\ Res.body.recommended_reserve = 37300
        /\ Res.body.usable_cash = 62700

C8_Witness ==
    /\ ExampleRequest
    /\ Req.state = CA
    /\ Res.body.recommended_reserve = 37300

\* The response to the same request with the income signal removed.
WithoutEstimate == calculate_tax_reserve([Req EXCEPT !.annual_income_estimate = None],
                                         STATE_TAX_RATES)

\* C9: inference is monotonic, no inferred rate exceeds the default rate, and the
\* reserve computed with no income signal is at least the reserve computed with an
\* estimate for the same amount and state.
C9_ConservativeDefault ==
    /\ inferred # None =>
          /\ \A e \in InferEstimates :
                e <= Value(inferred).estimate =>
                    infer_federal_rate(e) <= Value(inferred).rate
          /\ Value(inferred).rate <=
                ResolveFederalRate([federal_rate |-> None, annual_income_estimate |-> None])
    /\ (Calculated /\ Req.federal_rate = None /\ Req.annual_income_estimate # None) =>
          WithoutEstimate.recommended_reserve >= Res.body.recommended_reserve

C9_Witness ==
    /\ Calculated
    /\ Req.amount = 1000000
    /\ Req.federal_rate = None
    /\ Req.annual_income_estimate = Some(0)
    /\ Res.body.recommended_reserve < WithoutEstimate.recommended_reserve

\* C10 as stated: a valid request is always answered with a result, and usable_cash
\* is negative exactly when the reserve exceeds the gross amount.
C10_NegativeExactlyWhenOver ==
    (Routed /\ Req.amount >= 0) =>
        /\ Res.kind = "TaxCalculationResponse"
        /\ Res.body.usable_cash < 0 <=> 10 * Res.body.recommended_reserve > Req.amount

\* C10 amended: a valid request is always answered with a result; usable_cash is
\* negative only when the reserve exceeds the gross amount, and exactly then when
\* the amount is a whole number of cents.
C10_NegativeUsableCash ==
    (Routed /\ Req.amount >= 0) =>
        /\ Res.kind = "TaxCalculationResponse"
        /\ Res.body.usable_cash < 0 => 10 * Res.body.recommended_reserve > Req.amount
        /\ Req.amount % 10 = 0 =>
              (Res.body.usable_cash < 0 <=> 10 * Res.body.recommended_reserve > Req.amount)

C10_Witness ==
    /\ Calculated
    /\ Req.amount = 1000000
    /\ Req.federal_rate = Some(1000)
    /\ Res.body.recommended_reserve = 115300
    /\ Res.body.usable_cash = -15300
====
